---- MODULE Spec2Model ----
(***************************************************************************)
(* The CHARACTER port of the Archon login server                           *)
(* (src/src/login_server/login_server/character.go): the packet dispatcher *)
(* processCharacterPacket, its handlers, the per-connection fields of      *)
(* LoginClient they read and write, the character and options tables of    *)
(* the store, and the guildcard blob that is built once and served in      *)
(* chunks.                                                                 *)
(*                                                                         *)
(* A byte string is kept as its length and the set of its nonzero bytes,   *)
(* each a pair <<offset, byte>>: two byte strings are equal exactly when   *)
(* they are equal byte for byte.  (The guildcard blob is 54672 bytes, of   *)
(* which a few hundred are nonzero.)                                       *)
(***************************************************************************)
EXTENDS Integers, Sequences, FiniteSets, Bags, TLC

(***************************************************************************)
(* Bounds of the model.                                                    *)
(***************************************************************************)
\* Guildcard chunk indices a client asks for are 0..MaxChunkRequested.
MaxChunkRequested == 3
\* Parameter chunks cached at process start are 0..(NumParamChunks - 1).
NumParamChunks == 2
\* Flags bytes of a parameter chunk request are 0..MaxParamFlags.
MaxParamFlags == 2

(***************************************************************************)
(* Program constants.                                                      *)
(***************************************************************************)
\* GuildcardEntry: element counts of its [n]uint16 fields.
NameLen == 24
TeamNameLen == 16
DescriptionLen == 88
CommentLen == 88
\* GuildcardData: its byte regions and the length of its entry table.
UnknownLen == 276
BlockedLen == 7656
Unknown2Len == 120
NumEntries == 104
Unknown3Len == 444
\* handleGuildcardDataStart: "Maximum of 140 entries can be sent."
MaxGuildcards == 140
\* handleKeyConfig: make([]byte, 420).
OptionDataLen == 420
\* handleCharacterUpdate: meseta := 300.
StartingMeseta == 300
\* The fixed size of a guildcard chunk (the packet layer's limit).
MaxChunkSize == 26624

\* The connections of the model: one worker, processing its packets in the
\* order received.
Conns == {1}
\* The connections of the concurrent specification: two workers, bound to
\* the same account, whose statements the store executes one at a time in
\* any order.
ConcConns == {1, 2}
\* The character slots a packet names: two of the account's slots.
Slots == {0, 1}
\* The account every connection of the model is bound to (client.guildcard,
\* client.teamId).
ClientGuildcard(c) == 42
ClientTeamId(c) == 7

(***************************************************************************)
(* Byte strings.                                                           *)
(***************************************************************************)
\* A nil or empty []byte.
NilBytes == [len |-> 0, nz |-> {}]

BytesLen(b) == b.len

\* b[from : from + n], for 0 <= from and from + n <= len(b).
BytesSlice(b, from, n) ==
    [len |-> n,
     nz  |-> {<<p[1] - from, p[2]>> : p \in {q \in b.nz : q[1] >= from /\ q[1] < from + n}}]

\* append(a, b...)
BytesCat(a, b) ==
    [len |-> a.len + b.len,
     nz  |-> a.nz \cup {<<p[1] + a.len, p[2]>> : p \in b.nz}]

\* The n bytes of the unsigned integer v, little-endian, placed at offset at.
LittleEndianAt(v, n, at) ==
    {p \in {<<at + j, (v \div (256 ^ j)) % 256>> : j \in 0..(n - 1)} : p[2] # 0}


(***************************************************************************)
(* The guildcard aggregate and its serialisation.                          *)
(***************************************************************************)
\* Byte sizes of GuildcardEntry and of GuildcardData, field by field.
GuildcardEntrySize ==
    4 + 2 * NameLen + 2 * TeamNameLen + 2 * DescriptionLen + 1 + 1 + 1 + 1 + 4
      + 2 * CommentLen

EntriesOffset == UnknownLen + BlockedLen + Unknown2Len

GuildcardDataSize ==
    EntriesOffset + NumEntries * GuildcardEntrySize + Unknown3Len

\* Offsets of the scanned fields inside one GuildcardEntry.
LanguageOffset == 4 + 2 * NameLen + 2 * TeamNameLen + 2 * DescriptionLen + 1
SectionIDOffset == LanguageOffset + 1
CharClassOffset == SectionIDOffset + 1

\* A zero GuildcardEntry; Name, TeamName, Description, Reserved, padding and
\* Comment are never written by this file and stay zero.
ZeroEntry == [Guildcard |-> 0, Language |-> 0, SectionID |-> 0, CharClass |-> 0]

\* new(GuildcardData)
NewGuildcardData == [Entries |-> [i \in 0..(NumEntries - 1) |-> ZeroEntry]]

\* The bytes of entry e placed at offset at.
EntryBytesAt(e, at) ==
    LittleEndianAt(e.Guildcard, 4, at)
      \cup LittleEndianAt(e.Language, 1, at + LanguageOffset)
      \cup LittleEndianAt(e.SectionID, 1, at + SectionIDOffset)
      \cup LittleEndianAt(e.CharClass, 1, at + CharClassOffset)

\* util.BytesFromStruct(gcData): the fixed layout, fields in declaration
\* order, integers little-endian; returns the bytes (its second result, the
\* size, is their length).
BytesFromStruct(gc) ==
    [len |-> GuildcardDataSize,
     nz  |-> UNION {EntryBytesAt(gc.Entries[i], EntriesOffset + i * GuildcardEntrySize)
                      : i \in DOMAIN gc.Entries}]

\* crc32.ChecksumIEEE of the standard library, kept uninterpreted: the value
\* names the byte string it was computed from, so two checksums are equal
\* exactly when the bytes are.
ChecksumIEEE(b) == [crc32 |-> b]

\* uint16(size)
Uint16(n) == n % 65536

\* uint8(n)
Uint8(n) == n % 256

(***************************************************************************)
(* Inbound packets.  One record shape for all types; a field a type does   *)
(* not carry is 0.                                                         *)
(***************************************************************************)
\* The CharacterPreview values a client submits (Name, Class, PropX, PropY
\* stand for the whole record).
Previews ==
    {[Name |-> "Ash", Class |-> 0, PropX |-> 1, PropY |-> 2],
     [Name |-> "Sue", Class |-> 11, PropX |-> 3, PropY |-> 4]}

NoPreview == [Name |-> "", Class |-> 0, PropX |-> 0, PropY |-> 0]

\* The flag bytes a Set-flag packet carries; 2 is the dressing room.
FlagBytes == {0, 2}

\* The continuation bytes a guildcard chunk request carries; 1 asks for the
\* chunk.
ContinueBytes == {0, 1, 2}

\* Packet types the dispatcher has no case for.
UnknownTypes == {"0x05", "0xFF"}

Pkt(type) ==
    [type |-> type, Slot |-> 0, Selecting |-> 0, Continue |-> 0,
     ChunkRequested |-> 0, Flags |-> 0, Flag |-> 0, Character |-> NoPreview]

(***************************************************************************)
(* Outbound packets: each Send function (login_server's packet senders)    *)
(* sends one packet built from its arguments.                              *)
(***************************************************************************)
\* SendSecurity carries the session's config as it is when it is called.
SendSecurity(cl, c) ==
    [type |-> "Security", error |-> "BBLoginErrorNone",
     guildcard |-> ClientGuildcard(c), teamId |-> ClientTeamId(c),
     config |-> cl.config]

SendTimestamp == [type |-> "Timestamp"]

SendShipList == [type |-> "ShipList"]

SendScrollMessage == [type |-> "ScrollMessage"]

SendOptions(optionData) == [type |-> "Options", data |-> optionData]

SendCharacterAck(slot, status) ==
    [type |-> "CharacterAck", slot |-> slot, status |-> status]

SendCharacterPreview(prev) == [type |-> "CharacterPreview", character |-> prev]

SendChecksumAck(status) == [type |-> "ChecksumAck", status |-> status]

SendGuildcardHeader(checksum, size) ==
    [type |-> "GuildcardHeader", checksum |-> checksum, length |-> size]

SendParameterHeader(numFiles, header) ==
    [type |-> "ParameterHeader", numFiles |-> numFiles, data |-> header]

SendParameterChunk(data, index) ==
    [type |-> "ParameterChunk", chunk |-> index, data |-> data]

\* The guildcard chunk accessor: the chunkNum-th slice of MaxChunkSize bytes
\* of the session's blob, the last one shorter; a request with no blob built
\* or past its end is rejected and sends nothing.
SendGuildcardChunk(cl, chunkNum) ==
    LET offset == chunkNum * MaxChunkSize
        remaining == BytesLen(cl.gcData) - offset
    IN  IF remaining <= 0
        THEN <<>>
        ELSE <<[type |-> "GuildcardChunk", chunk |-> chunkNum,
                data |-> BytesSlice(cl.gcData, offset,
                                    IF remaining > MaxChunkSize
                                    THEN MaxChunkSize ELSE remaining)]>>

(***************************************************************************)
(* State.                                                                  *)
(***************************************************************************)
VARIABLES
    client,            \* per connection: config (CharSelected, SlotNum), flag,
                       \* gcData, gcDataSize of its LoginClient
    panicked,          \* per connection: its handler took a run-time panic
    characters,        \* the characters table: a bag of rows
    playerOptions,     \* the player_options table: a bag of rows
    guildcardEntries,  \* the account's guildcard_entries rows, in query order
    paramHeaderData,   \* the cached parameter header
    paramChunkData,    \* the cached parameter chunks, by index
    pending,           \* per connection: the create packet whose DELETE has
                       \* been executed and whose INSERT has not, if any
    last               \* the packet processed last and what came of it

vars ==
    <<client, panicked, characters, playerOptions, guildcardEntries,
      paramHeaderData, paramChunkData, pending, last>>

\* A LoginClient after the connection is accepted.
NewClient ==
    [config |-> [CharSelected |-> 0, SlotNum |-> 0], flag |-> 0,
     gcData |-> NilBytes, gcDataSize |-> 0]

\* The k-th row (from 0) of the account's guildcard_entries.
StoredEntry(k) ==
    [friend_gc |-> 1000 + k, language |-> 1, section_id |-> k % 10,
     char_class |-> k % 12]

\* The numbers of guildcard_entries rows an account of the model may hold.
GuildcardCounts == {0, 1, NumEntries, NumEntries + 1, MaxGuildcards + 1}

\* The characters table when the connection is accepted: the account is new,
\* or it holds a character, created on an earlier connection, in slot 0.
InitialCharacters ==
    {EmptyBag,
     SetToBag({[guildcard |-> ClientGuildcard(1), slot_num |-> 0, name |-> "Old",
                char_class |-> 5, proportion_x |-> 5, proportion_y |-> 6,
                meseta |-> StartingMeseta]})}

\* len(ParamFiles) and the cache the process builds from them at start.
NumParamFiles == NumParamChunks

InitParamHeader == [len |-> 4 * NumParamFiles, nz |-> {<<0, NumParamFiles>>}]

InitParamChunks ==
    [i \in 0..(NumParamChunks - 1) |-> [len |-> 8, nz |-> {<<0, i + 1>>}]]

\* What the model remembers of the packet processed last: the connection and
\* the packet, what the dispatcher returned (err) or whether it panicked, the
\* packets sent in order, the log entries, the session before the packet
\* (pre); for a packet that names a slot, the number of character rows the
\* slot held before the packet (preRows); and for a Login packet, afterSelect:
\* the status of the character acknowledgment sent for the packet before it
\* on the same connection if that packet was a select (selecting flag 1) that
\* returned no error, else 0.
NoPacket ==
    [conn |-> 0, pkt |-> Pkt("none"), err |-> FALSE, panic |-> FALSE,
     sent |-> <<>>, logs |-> <<>>, pre |-> NewClient, preRows |-> 0,
     afterSelect |-> 0]

\* A worker that is not inside handleCharacterUpdate.
NoPending == [pkt |-> Pkt("none"), preRows |-> 0]

Init ==
    /\ client = [c \in Conns |-> NewClient]
    /\ panicked = [c \in Conns |-> FALSE]
    /\ characters \in InitialCharacters
    /\ playerOptions = EmptyBag
    /\ \E n \in GuildcardCounts :
          guildcardEntries = [k \in 1..n |-> StoredEntry(k - 1)]
    /\ paramHeaderData = InitParamHeader
    /\ paramChunkData = InitParamChunks
    /\ pending = [c \in Conns |-> NoPending]
    /\ last = NoPacket

(***************************************************************************)
(* The store's statements.                                                 *)
(***************************************************************************)
\* The rows of table t that satisfy WHERE guildcard = g AND slot_num = slot.
RowsOf(t, g, slot) ==
    {r \in BagToSet(t) : r.guildcard = g /\ r.slot_num = slot}

\* The number of rows of t for (g, slot).
RowCount(t, g, slot) ==
    LET rows == RowsOf(t, g, slot)
        RECURSIVE Sum(_)
        Sum(S) == IF S = {} THEN 0
                  ELSE LET r == CHOOSE x \in S : TRUE IN t[r] + Sum(S \ {r})
    IN  Sum(rows)

\* DELETE FROM characters WHERE guildcard = g AND slot_num = slot
DeleteCharacter(t, g, slot) ==
    LET keep == BagToSet(t) \ RowsOf(t, g, slot)
    IN  [r \in keep |-> t[r]]

\* INSERT INTO characters VALUES (g, slot, ..., prev's fields, stats, meseta)
InsertCharacter(t, g, slot, prev) ==
    t (+) SetToBag({[guildcard |-> g, slot_num |-> slot, name |-> prev.Name,
                     char_class |-> prev.Class, proportion_x |-> prev.PropX,
                     proportion_y |-> prev.PropY, meseta |-> StartingMeseta]})

\* The UPDATE of the dressing room.  Its text reads "hair_blue,=?
\* proportion_x=?": the statement does not parse, so Exec returns an error
\* whatever the arguments and no row changes.
UpdateCharacter(t, g, slot, prev) == [err |-> TRUE, rows |-> t]

\* The default key config, BaseKeyConfig, as copied into optionData[:420].
BaseKeyConfig == [len |-> OptionDataLen, nz |-> {<<0, 1>>, <<OptionDataLen - 1, 9>>}]

(***************************************************************************)
(* Handlers.  Each is the set of outcomes the handler can have, one per    *)
(* way its store calls can fail: what it returned, the packets it sent in  *)
(* order, its log entries, and the session and tables it leaves.           *)
(***************************************************************************)
Outcome(err, sent, cl, chars, opts) ==
    [err |-> err, panic |-> FALSE, sent |-> sent, logs |-> <<>>,
     client |-> cl, characters |-> chars, playerOptions |-> opts]

\* A failed store call: log.DBError, return err.
DBError(cl, chars, opts) ==
    [err |-> TRUE, panic |-> FALSE, sent |-> <<>>, logs |-> <<"DBError">>,
     client |-> cl, characters |-> chars, playerOptions |-> opts]

\* verifyAccount: re-validates the account binding; it succeeds or fails and
\* sends nothing itself.
verifyAccount == {TRUE, FALSE}

\* handleCharLogin changed: the CharSelected test is dropped.
handleCharLogin_NoSelectedTest(c, cl, chars, opts) ==
    {IF ~ok
     THEN Outcome(TRUE, <<>>, cl, chars, opts)
     ELSE Outcome(FALSE,
                  <<SendSecurity(cl, c), SendTimestamp, SendShipList,
                    SendScrollMessage>>,
                  cl, chars, opts)
       : ok \in verifyAccount}

handleCharLogin(c, cl, chars, opts) ==
    {IF ~ok
     THEN Outcome(TRUE, <<>>, cl, chars, opts)
     ELSE Outcome(FALSE,
                  <<SendSecurity(cl, c)>>
                    \o (IF cl.config.CharSelected = 1
                        THEN <<SendTimestamp, SendShipList, SendScrollMessage>>
                        ELSE <<>>),
                  cl, chars, opts)
       : ok \in verifyAccount}

\* handleKeyConfig changed: the defaults are inserted on every request.
handleKeyConfig_AlwaysInserts(c, cl, chars, opts) ==
    LET found == {r \in BagToSet(opts) : r.guildcard = ClientGuildcard(c)}
        default == BaseKeyConfig
        inserted == opts (+) SetToBag({[guildcard |-> ClientGuildcard(c),
                                        key_config |-> default]})
    IN  {DBError(cl, chars, opts)}
          \cup (IF found = {}
                THEN {Outcome(FALSE, <<SendOptions(default)>>, cl, chars, inserted)}
                ELSE {Outcome(FALSE, <<SendOptions(r.key_config)>>, cl, chars, inserted)
                        : r \in found})

handleKeyConfig(c, cl, chars, opts) ==
    LET found == {r \in BagToSet(opts) : r.guildcard = ClientGuildcard(c)}
        default == BaseKeyConfig
    IN  {DBError(cl, chars, opts)}
          \cup (IF found = {}
                THEN \* sql.ErrNoRows: insert the defaults, then send them.
                     {Outcome(FALSE, <<SendOptions(default)>>, cl, chars,
                              opts (+) SetToBag({[guildcard |-> ClientGuildcard(c),
                                                  key_config |-> default]}))}
                ELSE {Outcome(FALSE, <<SendOptions(r.key_config)>>, cl, chars, opts)
                        : r \in found})

\* handleCharacterSelect changed: a selection falls through to the preview.
handleCharacterSelect_FallThrough(c, cl, pkt, chars, opts) ==
    LET found == RowsOf(chars, ClientGuildcard(c), pkt.Slot)
        selected == [cl EXCEPT !.config = [CharSelected |-> 1,
                                           SlotNum |-> Uint8(pkt.Slot)]]
        preview(r) ==
            SendCharacterPreview([Name |-> r.name, Class |-> r.char_class,
                                  PropX |-> r.proportion_x, PropY |-> r.proportion_y])
    IN  {DBError(cl, chars, opts)}
          \cup (IF found = {}
                THEN {Outcome(FALSE, <<SendCharacterAck(pkt.Slot, 2)>>, cl, chars, opts)}
                ELSE IF pkt.Selecting = 1
                THEN {Outcome(FALSE,
                              <<SendSecurity(selected, c), SendCharacterAck(pkt.Slot, 1),
                                preview(r)>>,
                              selected, chars, opts) : r \in found}
                ELSE {Outcome(FALSE, <<preview(r)>>, cl, chars, opts) : r \in found})

\* handleCharacterSelect changed: the selection is acknowledged but not
\* stored in the session.
handleCharacterSelect_NotStored(c, cl, pkt, chars, opts) ==
    LET found == RowsOf(chars, ClientGuildcard(c), pkt.Slot)
        selected == [cl EXCEPT !.config = [CharSelected |-> 1,
                                           SlotNum |-> Uint8(pkt.Slot)]]
    IN  {DBError(cl, chars, opts)}
          \cup (IF found = {}
                THEN {Outcome(FALSE, <<SendCharacterAck(pkt.Slot, 2)>>, cl, chars, opts)}
                ELSE IF pkt.Selecting = 1
                THEN {Outcome(FALSE,
                              <<SendSecurity(selected, c), SendCharacterAck(pkt.Slot, 1)>>,
                              cl, chars, opts)}
                ELSE {Outcome(FALSE,
                              <<SendCharacterPreview(
                                  [Name |-> r.name, Class |-> r.char_class,
                                   PropX |-> r.proportion_x, PropY |-> r.proportion_y])>>,
                              cl, chars, opts)
                        : r \in found})

handleCharacterSelect(c, cl, pkt, chars, opts) ==
    LET found == RowsOf(chars, ClientGuildcard(c), pkt.Slot)
        selected == [cl EXCEPT !.config = [CharSelected |-> 1,
                                           SlotNum |-> Uint8(pkt.Slot)]]
    IN  {DBError(cl, chars, opts)}
          \cup (IF found = {}
                THEN {Outcome(FALSE, <<SendCharacterAck(pkt.Slot, 2)>>, cl, chars, opts)}
                ELSE IF pkt.Selecting = 1
                THEN {Outcome(FALSE,
                              <<SendSecurity(selected, c), SendCharacterAck(pkt.Slot, 1)>>,
                              selected, chars, opts)}
                ELSE {Outcome(FALSE,
                              <<SendCharacterPreview(
                                  [Name |-> r.name, Class |-> r.char_class,
                                   PropX |-> r.proportion_x, PropY |-> r.proportion_y])>>,
                              cl, chars, opts)
                        : r \in found})

\* The loop of handleGuildcardDataStart from index i on: while rows.Next()
\* and i < 140, take &gcData.Entries[i] and scan the row into it.  Indexing
\* the 104-entry table at 104 or above is a run-time panic.
RECURSIVE ScanRows(_, _, _)
ScanRows(gc, rows, i) ==
    IF ~(i < Len(rows) /\ i < MaxGuildcards)
    THEN [panic |-> FALSE, gcData |-> gc]
    ELSE IF i \notin DOMAIN gc.Entries
    THEN [panic |-> TRUE, gcData |-> gc]
    ELSE ScanRows([gc EXCEPT !.Entries[i] =
                      [Guildcard |-> rows[i + 1].friend_gc,
                       Language  |-> rows[i + 1].language,
                       SectionID |-> rows[i + 1].section_id,
                       CharClass |-> rows[i + 1].char_class]],
                  rows, i + 1)

\* handleGuildcardDataStart changed: the checksum is taken before the new
\* bytes are stored in the session.
handleGuildcardDataStart_StaleChecksum(c, cl, rows, chars, opts) ==
    LET scanned == ScanRows(NewGuildcardData, rows, 0)
        bytes == BytesFromStruct(scanned.gcData)
        size == BytesLen(bytes)
        checksum == ChecksumIEEE(cl.gcData)
        built == [cl EXCEPT !.gcData = bytes, !.gcDataSize = Uint16(size)]
    IN  {DBError(cl, chars, opts)}
          \cup (IF scanned.panic
                THEN {[Outcome(FALSE, <<>>, cl, chars, opts) EXCEPT !.panic = TRUE]}
                ELSE {Outcome(FALSE, <<SendGuildcardHeader(checksum, built.gcDataSize)>>,
                              built, chars, opts)})

handleGuildcardDataStart(c, cl, rows, chars, opts) ==
    LET scanned == ScanRows(NewGuildcardData, rows, 0)
        bytes == BytesFromStruct(scanned.gcData)
        size == BytesLen(bytes)
        checksum == ChecksumIEEE(bytes)
        built == [cl EXCEPT !.gcData = bytes, !.gcDataSize = Uint16(size)]
    IN  \* The query, or the Scan of a row, fails.
        {DBError(cl, chars, opts)}
          \cup (IF scanned.panic
                THEN {[Outcome(FALSE, <<>>, cl, chars, opts) EXCEPT !.panic = TRUE]}
                ELSE {Outcome(FALSE, <<SendGuildcardHeader(checksum, built.gcDataSize)>>,
                              built, chars, opts)})

\* handleGuildcardChunk changed: the chunk after the requested one is sent.
handleGuildcardChunk_OffByOne(c, cl, pkt, chars, opts) ==
    IF pkt.Continue # 1
    THEN {Outcome(FALSE, <<>>, cl, chars, opts)}
    ELSE {Outcome(FALSE, SendGuildcardChunk(cl, pkt.ChunkRequested + 1), cl, chars, opts)}

\* handleGuildcardChunk changed: a cancelled transfer discards the blob.
handleGuildcardChunk_CancelDiscards(c, cl, pkt, chars, opts) ==
    IF pkt.Continue # 1
    THEN {Outcome(FALSE, <<>>, [cl EXCEPT !.gcData = NilBytes, !.gcDataSize = 0],
                  chars, opts)}
    ELSE {Outcome(FALSE, SendGuildcardChunk(cl, pkt.ChunkRequested), cl, chars, opts)}

handleGuildcardChunk(c, cl, pkt, chars, opts) ==
    IF pkt.Continue # 1
    THEN {Outcome(FALSE, <<>>, cl, chars, opts)}
    ELSE {Outcome(FALSE, SendGuildcardChunk(cl, pkt.ChunkRequested), cl, chars, opts)}

\* The end of handleCharacterUpdate, common to its two branches: mark the
\* session, send the security acknowledgment, send the character
\* acknowledgment with status 0.
CharacterUpdated_SendThenMark(c, cl, pkt, rows, opts) ==
    LET active == [cl EXCEPT !.config = [CharSelected |-> 1,
                                         SlotNum |-> Uint8(pkt.Slot)]]
    IN  Outcome(FALSE, <<SendSecurity(cl, c), SendCharacterAck(pkt.Slot, 0)>>,
                active, rows, opts)

CharacterUpdated(c, cl, pkt, rows, opts) ==
    LET active == [cl EXCEPT !.config = [CharSelected |-> 1,
                                         SlotNum |-> Uint8(pkt.Slot)]]
    IN  Outcome(FALSE, <<SendSecurity(active, c), SendCharacterAck(pkt.Slot, 0)>>,
                active, rows, opts)

\* handleCharacterUpdate changed: the session is marked before the store is
\* written.
handleCharacterUpdate_MarkFirst(c, cl, pkt, chars, opts) ==
    LET g == ClientGuildcard(c)
        prev == pkt.Character
        active == [cl EXCEPT !.config = [CharSelected |-> 1,
                                         SlotNum |-> Uint8(pkt.Slot)]]
        done(rows) ==
            Outcome(FALSE, <<SendSecurity(active, c), SendCharacterAck(pkt.Slot, 0)>>,
                    active, rows, opts)
    IN  IF cl.flag = 2
        THEN LET upd == UpdateCharacter(chars, g, pkt.Slot, prev)
             IN  IF upd.err THEN {DBError(active, upd.rows, opts)} ELSE {done(upd.rows)}
        ELSE LET deleted == DeleteCharacter(chars, g, pkt.Slot)
             IN  {DBError(active, chars, opts),
                  DBError(active, deleted, opts),
                  done(InsertCharacter(deleted, g, pkt.Slot, prev))}

\* handleCharacterUpdate changed: the new row is inserted without the DELETE.
handleCharacterUpdate_NoDelete(c, cl, pkt, chars, opts) ==
    LET g == ClientGuildcard(c)
        prev == pkt.Character
        active == [cl EXCEPT !.config = [CharSelected |-> 1,
                                         SlotNum |-> Uint8(pkt.Slot)]]
        done(rows) ==
            Outcome(FALSE, <<SendSecurity(active, c), SendCharacterAck(pkt.Slot, 0)>>,
                    active, rows, opts)
    IN  IF cl.flag = 2
        THEN LET upd == UpdateCharacter(chars, g, pkt.Slot, prev)
             IN  IF upd.err THEN {DBError(cl, upd.rows, opts)} ELSE {done(upd.rows)}
        ELSE {DBError(cl, chars, opts),
              done(InsertCharacter(chars, g, pkt.Slot, prev))}

\* handleCharacterUpdate changed: the dressing-room flag is cleared once it
\* has been used.
handleCharacterUpdate_ResetsFlag(c, cl, pkt, chars, opts) ==
    LET g == ClientGuildcard(c)
        prev == pkt.Character
        used == [cl EXCEPT !.flag = 0]
        done(rows) == CharacterUpdated(c, used, pkt, rows, opts)
    IN  IF cl.flag = 2
        THEN LET upd == UpdateCharacter(chars, g, pkt.Slot, prev)
             IN  IF upd.err THEN {DBError(used, upd.rows, opts)} ELSE {done(upd.rows)}
        ELSE LET deleted == DeleteCharacter(chars, g, pkt.Slot)
             IN  {DBError(used, chars, opts),
                  DBError(used, deleted, opts),
                  done(InsertCharacter(deleted, g, pkt.Slot, prev))}

handleCharacterUpdate(c, cl, pkt, chars, opts) ==
    LET g == ClientGuildcard(c)
        prev == pkt.Character
        done(rows) == CharacterUpdated(c, cl, pkt, rows, opts)
    IN  IF cl.flag = 2
        THEN LET upd == UpdateCharacter(chars, g, pkt.Slot, prev)
             IN  IF upd.err THEN {DBError(cl, upd.rows, opts)} ELSE {done(upd.rows)}
        ELSE LET deleted == DeleteCharacter(chars, g, pkt.Slot)
             IN  {DBError(cl, chars, opts),       \* the DELETE fails
                  DBError(cl, deleted, opts),     \* the INSERT fails
                  done(InsertCharacter(deleted, g, pkt.Slot, prev))}

handleMenuSelect(c, cl, chars, opts) == {Outcome(FALSE, <<>>, cl, chars, opts)}

(***************************************************************************)
(* The dispatcher.                                                         *)
(***************************************************************************)
HandledTypes ==
    {"LoginType", "DisconnectType", "OptionsRequestType", "CharPreviewReqType",
     "ChecksumType", "GuildcardReqType", "GuildcardChunkReqType",
     "ParameterHeaderReqType", "ParameterChunkReqType", "SetFlagType",
     "CharPreviewType", "MenuSelectType"}

\* The chunk lookup changed: the first cached chunk is served for any index.
ParamChunk_First(chunks, index) ==
    IF index \in DOMAIN chunks THEN chunks[0] ELSE NilBytes

\* paramChunkData[int(pkt.Flags)]: a key the map does not hold reads as nil.
ParamChunk(chunks, index) ==
    IF index \in DOMAIN chunks THEN chunks[index] ELSE NilBytes

\* The default case changed: an unknown type is reported to the caller.
DefaultCase_ReturnsError(c, cl, pkt, chars, opts) ==
    [Outcome(TRUE, <<>>, cl, chars, opts)
       EXCEPT !.logs = <<<<"Received unknown packet", pkt.type>>>>]

\* The default case of the dispatcher's switch: one log entry, built from
\* the packet's type, at medium priority; err stays nil.
DefaultCase(c, cl, pkt, chars, opts) ==
    [Outcome(FALSE, <<>>, cl, chars, opts)
       EXCEPT !.logs = <<<<"Received unknown packet", pkt.type>>>>]

processCharacterPacket(c, pkt) ==
    LET cl == client[c]
        chars == characters
        opts == playerOptions
    IN  CASE pkt.type = "LoginType" -> handleCharLogin(c, cl, chars, opts)
          [] pkt.type = "DisconnectType" -> {Outcome(FALSE, <<>>, cl, chars, opts)}
          [] pkt.type = "OptionsRequestType" -> handleKeyConfig(c, cl, chars, opts)
          [] pkt.type = "CharPreviewReqType" ->
                handleCharacterSelect(c, cl, pkt, chars, opts)
          [] pkt.type = "ChecksumType" ->
                {Outcome(FALSE, <<SendChecksumAck(1)>>, cl, chars, opts)}
          [] pkt.type = "GuildcardReqType" ->
                handleGuildcardDataStart(c, cl, guildcardEntries, chars, opts)
          [] pkt.type = "GuildcardChunkReqType" ->
                handleGuildcardChunk(c, cl, pkt, chars, opts)
          [] pkt.type = "ParameterHeaderReqType" ->
                {Outcome(FALSE,
                         <<SendParameterHeader(NumParamFiles, paramHeaderData)>>,
                         cl, chars, opts)}
          [] pkt.type = "ParameterChunkReqType" ->
                {Outcome(FALSE,
                         <<SendParameterChunk(ParamChunk(paramChunkData, pkt.Flags),
                                              pkt.Flags)>>,
                         cl, chars, opts)}
          [] pkt.type = "SetFlagType" ->
                {Outcome(FALSE, <<>>, [cl EXCEPT !.flag = pkt.Flag], chars, opts)}
          [] pkt.type = "CharPreviewType" ->
                handleCharacterUpdate(c, cl, pkt, chars, opts)
          [] pkt.type = "MenuSelectType" -> handleMenuSelect(c, cl, chars, opts)
          [] OTHER -> {DefaultCase(c, cl, pkt, chars, opts)}

\* The status acknowledged by the packet processed last, if it was a select
\* with selecting flag 1 on connection c that returned no error; else 0.
SelectStatus(c) ==
    IF /\ last.conn = c
       /\ last.pkt.type = "CharPreviewReqType"
       /\ last.pkt.Selecting = 1
       /\ ~last.err
    THEN last.sent[Len(last.sent)].status
    ELSE 0

\* The rows the packet's store key held when the packet arrived: the
\* character rows of its slot, or the account's options rows.
PreRows(c, pkt) ==
    IF pkt.type \in {"CharPreviewReqType", "CharPreviewType"}
    THEN RowCount(characters, ClientGuildcard(c), pkt.Slot)
    ELSE IF pkt.type = "OptionsRequestType"
    THEN BagCardinality(playerOptions)
    ELSE 0

\* The dispatcher returns from pkt on connection c with outcome r.
Return(c, pkt, r, preRows) ==
    /\ client' = [client EXCEPT ![c] = r.client]
    /\ panicked' = [panicked EXCEPT ![c] = r.panic]
    /\ characters' = r.characters
    /\ playerOptions' = r.playerOptions
    /\ last' = [conn |-> c, pkt |-> pkt, err |-> r.err, panic |-> r.panic,
                sent |-> r.sent, logs |-> r.logs, pre |-> client[c],
                preRows |-> preRows,
                afterSelect |->
                    IF pkt.type = "LoginType" THEN SelectStatus(c) ELSE 0]

\* The dispatcher runs to its end on pkt, received on connection c, whose
\* worker takes one packet at a time.
Process(c, pkt) ==
    /\ pending[c] = NoPending
    /\ \E r \in processCharacterPacket(c, pkt) :
          Return(c, pkt, r, PreRows(c, pkt))
    /\ UNCHANGED <<guildcardEntries, paramHeaderData, paramChunkData, pending>>

(***************************************************************************)
(* One action per packet type: connection c, whose worker is still         *)
(* running, receives a packet of that type.                                *)
(***************************************************************************)
Login(c) ==
    /\ ~panicked[c]
    /\ Process(c, Pkt("LoginType"))

Disconnect(c) ==
    /\ ~panicked[c]
    /\ Process(c, Pkt("DisconnectType"))

OptionsRequest(c) ==
    /\ ~panicked[c]
    /\ Process(c, Pkt("OptionsRequestType"))

CharPreviewReq(c) ==
    /\ ~panicked[c]
    /\ \E slot \in Slots, selecting \in {0, 1} :
          Process(c, [Pkt("CharPreviewReqType") EXCEPT
                        !.Slot = slot, !.Selecting = selecting])

Checksum(c) ==
    /\ ~panicked[c]
    /\ Process(c, Pkt("ChecksumType"))

GuildcardReq(c) ==
    /\ ~panicked[c]
    /\ Process(c, Pkt("GuildcardReqType"))

GuildcardChunkReq(c) ==
    /\ ~panicked[c]
    /\ \E chunk \in 0..MaxChunkRequested, continue \in ContinueBytes :
          Process(c, [Pkt("GuildcardChunkReqType") EXCEPT
                        !.ChunkRequested = chunk, !.Continue = continue])

ParameterHeaderReq(c) ==
    /\ ~panicked[c]
    /\ Process(c, Pkt("ParameterHeaderReqType"))

ParameterChunkReq(c) ==
    /\ ~panicked[c]
    /\ \E flags \in 0..MaxParamFlags :
          Process(c, [Pkt("ParameterChunkReqType") EXCEPT !.Flags = flags])

SetFlag(c) ==
    /\ ~panicked[c]
    /\ \E flag \in FlagBytes :
          Process(c, [Pkt("SetFlagType") EXCEPT !.Flag = flag])

CharPreview(c) ==
    /\ ~panicked[c]
    /\ \E slot \in Slots, prev \in Previews :
          Process(c, [Pkt("CharPreviewType") EXCEPT
                        !.Slot = slot, !.Character = prev])

MenuSelect(c) ==
    /\ ~panicked[c]
    /\ Process(c, Pkt("MenuSelectType"))

UnknownPacket(c) ==
    /\ ~panicked[c]
    /\ \E t \in UnknownTypes : Process(c, Pkt(t))

Next ==
    \E c \in Conns :
        \/ Login(c)
        \/ Disconnect(c)
        \/ OptionsRequest(c)
        \/ CharPreviewReq(c)
        \/ Checksum(c)
        \/ GuildcardReq(c)
        \/ GuildcardChunkReq(c)
        \/ ParameterHeaderReq(c)
        \/ ParameterChunkReq(c)
        \/ SetFlag(c)
        \/ CharPreview(c)
        \/ MenuSelect(c)
        \/ UnknownPacket(c)

Spec == Init /\ [][Next]_vars

(***************************************************************************)
(* The concurrent specification: the connections of ConcConns, bound to    *)
(* the same account, each with its own worker.  The store executes one     *)
(* statement at a time; between two statements of one handler any other    *)
(* worker may run.  The handlers that execute at most one writing          *)
(* statement are steps as before; the create branch of                     *)
(* handleCharacterUpdate is two steps, its DELETE and its INSERT.          *)
(***************************************************************************)
ConcInit ==
    /\ client = [c \in ConcConns |-> NewClient]
    /\ panicked = [c \in ConcConns |-> FALSE]
    /\ characters \in InitialCharacters
    /\ playerOptions = EmptyBag
    /\ guildcardEntries = <<StoredEntry(0)>>
    /\ paramHeaderData = InitParamHeader
    /\ paramChunkData = InitParamChunks
    /\ pending = [c \in ConcConns |-> NoPending]
    /\ last = NoPacket

\* handleCharacterUpdate with the flag 0x02: the single UPDATE and the end
\* of the handler.
DressingRoom(c) ==
    /\ ~panicked[c]
    /\ client[c].flag = 2
    /\ \E slot \in Slots, prev \in Previews :
          Process(c, [Pkt("CharPreviewType") EXCEPT
                        !.Slot = slot, !.Character = prev])

\* handleCharacterUpdate, flag unset, up to its DELETE: the statement fails
\* and the handler returns the error, or it removes the slot's rows and the
\* handler goes on.
CreateDelete(c) ==
    /\ ~panicked[c]
    /\ pending[c] = NoPending
    /\ client[c].flag # 2
    /\ \E slot \in Slots, prev \in Previews :
          LET pkt == [Pkt("CharPreviewType") EXCEPT
                        !.Slot = slot, !.Character = prev]
          IN  \/ /\ Return(c, pkt, DBError(client[c], characters, playerOptions),
                           PreRows(c, pkt))
                 /\ UNCHANGED pending
              \/ /\ characters' =
                        DeleteCharacter(characters, ClientGuildcard(c), slot)
                 /\ pending' = [pending EXCEPT
                                  ![c] = [pkt |-> pkt, preRows |-> PreRows(c, pkt)]]
                 /\ UNCHANGED <<client, panicked, playerOptions, last>>
    /\ UNCHANGED <<guildcardEntries, paramHeaderData, paramChunkData>>

\* handleCharacterUpdate, flag unset, from its INSERT to its end.
CreateInsert(c) ==
    /\ pending[c] # NoPending
    /\ LET pkt == pending[c].pkt
           inserted == InsertCharacter(characters, ClientGuildcard(c), pkt.Slot,
                                       pkt.Character)
       IN  \E r \in {DBError(client[c], characters, playerOptions),
                     CharacterUpdated(c, client[c], pkt, inserted, playerOptions)} :
              Return(c, pkt, r, pending[c].preRows)
    /\ pending' = [pending EXCEPT ![c] = NoPending]
    /\ UNCHANGED <<guildcardEntries, paramHeaderData, paramChunkData>>

\* The packets whose handlers read or write what the connections share, the
\* characters table and the parameter cache, and the Set-flag packet that
\* chooses the branch of handleCharacterUpdate.
ConcNext ==
    \E c \in ConcConns :
        \/ CharPreviewReq(c)
        \/ ParameterHeaderReq(c)
        \/ ParameterChunkReq(c)
        \/ SetFlag(c)
        \/ DressingRoom(c)
        \/ CreateDelete(c)
        \/ CreateInsert(c)

ConcurrentSpec == ConcInit /\ [][ConcNext]_vars

(***************************************************************************)
(* Properties.                                                             *)
(***************************************************************************)
\* The types of the packets sent, in order.
Types(sent) == [i \in 1..Len(sent) |-> sent[i].type]

\* The packet processed last was of this type.
Processed(type) == last.conn \in DOMAIN client /\ last.pkt.type = type

\* The dispatcher returned no error and did not panic.
Completed == ~last.err /\ ~last.panic

\* C1: a preview/select request that completes without a persistence error
\* sends exactly one of three shapes.  Slot empty: one character
\* acknowledgment with status 2, whatever the selecting flag.  Slot populated,
\* selecting flag 1: a security acknowledgment, then a character
\* acknowledgment with status 1, no preview.  Slot populated, flag not 1: one
\* character preview and no acknowledgment.  Never a preview and a character
\* acknowledgment together.
C1_SelectShapes ==
    (Processed("CharPreviewReqType") /\ Completed) =>
        /\ last.preRows = 0 =>
              last.sent = <<SendCharacterAck(last.pkt.Slot, 2)>>
        /\ (last.preRows > 0 /\ last.pkt.Selecting = 1) =>
              /\ Types(last.sent) = <<"Security", "CharacterAck">>
              /\ last.sent[2] = SendCharacterAck(last.pkt.Slot, 1)
        /\ (last.preRows > 0 /\ last.pkt.Selecting # 1) =>
              Types(last.sent) = <<"CharacterPreview">>
        /\ ~(\E i, j \in 1..Len(last.sent) :
                /\ last.sent[i].type = "CharacterPreview"
                /\ last.sent[j].type = "CharacterAck")

\* C1's case: a preview of a populated slot was answered by the preview.
C1_Witness ==
    /\ Processed("CharPreviewReqType") /\ Completed
    /\ last.preRows > 0 /\ last.pkt.Selecting = 0
    /\ Types(last.sent) = <<"CharacterPreview">>

LoginSequence == <<"Security", "Timestamp", "ShipList", "ScrollMessage">>

\* C2 as stated: after a select with selecting flag 1 has been processed
\* without error, the Login that immediately follows on the connection (its
\* account validation succeeding) sends the timestamp, ship list and scroll
\* message.
C2_Original ==
    (Processed("LoginType") /\ Completed /\ last.afterSelect # 0) =>
        Types(last.sent) = LoginSequence

\* C2 amended: after a select with selecting flag 1 of a slot that holds a
\* character (acknowledged with status 1), the Login that immediately follows
\* on the connection, its account validation succeeding, sends the security
\* acknowledgment, timestamp, ship list and scroll message.
C2_SelectThenLogin ==
    (Processed("LoginType") /\ Completed /\ last.afterSelect = 1) =>
        Types(last.sent) = LoginSequence

\* C2's case: a Login right after the selection of a populated slot.
C2_Witness ==
    /\ Processed("LoginType") /\ Completed /\ last.afterSelect = 1
    /\ Types(last.sent) = LoginSequence

\* C3: a Login whose account validation succeeds sends a security
\* acknowledgment first; timestamp, ship list and scroll message follow it, in
\* that order, exactly when the session's CharSelected is 1; otherwise the
\* security acknowledgment is the only packet.  Login changes no session
\* field.
C3_Login ==
    (Processed("LoginType") /\ Completed) =>
        /\ Len(last.sent) >= 1 /\ last.sent[1].type = "Security"
        /\ last.pre.config.CharSelected = 1 => Types(last.sent) = LoginSequence
        /\ last.pre.config.CharSelected # 1 => Types(last.sent) = <<"Security">>
        /\ client[last.conn] = last.pre

\* C3's cases: a Login with no character selected, answered by the security
\* acknowledgment alone, on a session whose flag was set before.
C3_Witness ==
    /\ Processed("LoginType") /\ Completed
    /\ last.pre.config.CharSelected = 0 /\ last.pre.flag = 2
    /\ Types(last.sent) = <<"Security">>

\* C4: when a handler fails, the dispatcher returns the error, no packet is
\* sent for that packet and every session field (CharSelected, SlotNum, flag,
\* guildcard bytes and length) is as before the packet.
C4_FailureLeavesSession ==
    (last.conn \in Conns /\ last.err) =>
        /\ last.sent = <<>>
        /\ client[last.conn] = last.pre

\* C4's case: a character create that failed on a session that had a
\* guildcard blob built and no character selected.
C4_Witness ==
    /\ Processed("CharPreviewType") /\ last.err
    /\ last.pre.config.CharSelected = 0
    /\ BytesLen(last.pre.gcData) > 0

\* C5 as stated: whatever the number of stored guildcard entries, a guildcard
\* data request whose store calls succeed completes without fault and sends
\* exactly one guildcard header.
C5_Original ==
    (Processed("GuildcardReqType") /\ ~last.err) =>
        /\ ~last.panic
        /\ Types(last.sent) = <<"GuildcardHeader">>

\* C6: after a successful guildcard data request the header's checksum is the
\* CRC32 of the bytes stored in the session and its length, like the 16-bit
\* length stored in the session, is the number of those bytes, untruncated;
\* a chunk request changes neither the bytes nor the length.
C6_HeaderMatchesBlob ==
    /\ (Processed("GuildcardReqType") /\ Completed) =>
          /\ Types(last.sent) = <<"GuildcardHeader">>
          /\ last.sent[1].checksum = ChecksumIEEE(client[last.conn].gcData)
          /\ last.sent[1].length = BytesLen(client[last.conn].gcData)
          /\ BytesLen(client[last.conn].gcData) = GuildcardDataSize
    /\ \A c \in Conns : client[c].gcDataSize = BytesLen(client[c].gcData)
    /\ Processed("GuildcardChunkReqType") =>
          /\ client[last.conn].gcData = last.pre.gcData
          /\ client[last.conn].gcDataSize = last.pre.gcDataSize

\* C6's case: a header sent for a second build, over a blob that holds
\* entries.
C6_Witness ==
    /\ Processed("GuildcardReqType") /\ Completed
    /\ BytesLen(last.pre.gcData) > 0
    /\ client[last.conn].gcData.nz # {}
    /\ last.sent[1].length = 54672

\* The number of chunks of a blob of L bytes.
ChunkCount(L) == (L + MaxChunkSize - 1) \div MaxChunkSize

\* The request for chunk i, continuation flag set.
ChunkRequest(i) ==
    [Pkt("GuildcardChunkReqType") EXCEPT !.ChunkRequested = i, !.Continue = 1]

\* The chunk data the dispatcher sends on connection c for chunks from..(n - 1),
\* appended in index order.
RECURSIVE ChunksFrom(_, _, _)
ChunksFrom(c, from, n) ==
    IF from >= n THEN NilBytes
    ELSE LET r == CHOOSE x \in processCharacterPacket(c, ChunkRequest(from)) : TRUE
         IN  BytesCat(r.sent[1].data, ChunksFrom(c, from + 1, n))

\* C7: once a blob of L bytes is built, the responses to the chunk requests
\* 0 <= i < ceil(L / chunkSize), continuation flag set, are one chunk packet
\* each, carrying index i; every chunk but the last has chunkSize bytes, the
\* last L mod chunkSize (chunkSize if that is 0); appended in index order they
\* are the blob, byte for byte.  A chunk request processed with the flag set
\* sends that response.
C7_ChunksRebuildBlob ==
    /\ \A c \in Conns :
          LET L == BytesLen(client[c].gcData)
              n == ChunkCount(L)
          IN  L > 0 =>
                /\ \A i \in 0..(n - 1) :
                      \A r \in processCharacterPacket(c, ChunkRequest(i)) :
                          /\ Types(r.sent) = <<"GuildcardChunk">>
                          /\ r.sent[1].chunk = i
                          /\ BytesLen(r.sent[1].data) =
                                IF i < n - 1 \/ L % MaxChunkSize = 0
                                THEN MaxChunkSize ELSE L % MaxChunkSize
                /\ ChunksFrom(c, 0, n) = client[c].gcData
    /\ ( /\ Processed("GuildcardChunkReqType") /\ last.pkt.Continue = 1
          /\ last.pkt.ChunkRequested < ChunkCount(BytesLen(last.pre.gcData)) ) =>
          /\ Completed
          /\ last.sent \in {r.sent : r \in processCharacterPacket(
                                          last.conn, ChunkRequest(last.pkt.ChunkRequested))}

\* C7's case: the last, shorter chunk of a blob that holds entries was served.
C7_Witness ==
    /\ Processed("GuildcardChunkReqType") /\ last.pkt.Continue = 1
    /\ last.pkt.ChunkRequested = ChunkCount(BytesLen(last.pre.gcData)) - 1
    /\ Types(last.sent) = <<"GuildcardChunk">>
    /\ BytesLen(last.sent[1].data) = 54672 % MaxChunkSize
    /\ last.sent[1].data.nz # {}

\* C8 as stated: a chunk request whose index is not backed by data (a
\* guildcard chunk with no blob built or past its end; a parameter chunk whose
\* index is not cached) is rejected with an error and sends no chunk packet.
C8_Original ==
    /\ ( /\ Processed("GuildcardChunkReqType") /\ last.pkt.Continue = 1
          /\ last.pkt.ChunkRequested >= ChunkCount(BytesLen(last.pre.gcData)) ) =>
          (last.err /\ last.sent = <<>>)
    /\ ( /\ Processed("ParameterChunkReqType")
          /\ last.pkt.Flags \notin DOMAIN paramChunkData ) =>
          (last.err /\ last.sent = <<>>)

\* C9: a guildcard chunk request whose continuation flag is not 1 sends no
\* packet, returns no error and leaves every session field, the guildcard
\* bytes and length among them, as it was.
C9_CancelLeavesTransfer ==
    (Processed("GuildcardChunkReqType") /\ last.pkt.Continue # 1) =>
        /\ Completed
        /\ last.sent = <<>>
        /\ client[last.conn] = last.pre

\* C9's case: a transfer of a built blob was cancelled with a flag byte other
\* than 0 and 1.
C9_Witness ==
    /\ Processed("GuildcardChunkReqType") /\ last.pkt.Continue = 2
    /\ BytesLen(last.pre.gcData) > 0
    /\ client[last.conn].gcData = last.pre.gcData

\* C10: with creates processed one packet at a time, the characters table
\* holds at most one row per (account, slot); after a create (dressing-room
\* flag unset) that returned no error the slot holds exactly the row just
\* inserted, whether the slot held a character before or not.
C10_OneRowPerSlot ==
    /\ \A c \in Conns, slot \in Slots :
          RowCount(characters, ClientGuildcard(c), slot) <= 1
    /\ (Processed("CharPreviewType") /\ Completed /\ last.pre.flag # 2) =>
          LET g == ClientGuildcard(last.conn)
          IN  /\ RowCount(characters, g, last.pkt.Slot) = 1
              /\ \A r \in RowsOf(characters, g, last.pkt.Slot) :
                    /\ r.name = last.pkt.Character.Name
                    /\ r.char_class = last.pkt.Character.Class

\* C10's case: a create into a slot that held another character.
C10_Witness ==
    /\ Processed("CharPreviewType") /\ Completed /\ last.pre.flag # 2
    /\ last.preRows = 1
    /\ \E r \in RowsOf(characters, ClientGuildcard(last.conn), last.pkt.Slot) :
          r.name = "Sue"
    /\ last.pkt.Slot = 1

\* C11 as stated: the status of the acknowledgment sent after a create
\* (flag unset, delete then insert) differs from the status the same
\* acknowledgment step carries for the same packet when it is reached from
\* the dressing-room branch.
C11_Original ==
    (Processed("CharPreviewType") /\ Completed /\ last.pre.flag # 2) =>
        LET dressed == CharacterUpdated(last.conn, [last.pre EXCEPT !.flag = 2],
                                        last.pkt, characters, playerOptions)
        IN  last.sent[2].status # dressed.sent[2].status

\* C12: the account holds at most one options row at any time; an options
\* request that completes leaves exactly one row, holding the 420-byte default
\* block, and sends those 420 bytes, whether it is the request that inserted
\* the row or a later one.
C12_OptionsDefault ==
    /\ BagCardinality(playerOptions) <= 1
    /\ (Processed("OptionsRequestType") /\ Completed) =>
          /\ playerOptions =
                SetToBag({[guildcard |-> ClientGuildcard(last.conn),
                           key_config |-> BaseKeyConfig]})
          /\ last.sent = <<SendOptions(BaseKeyConfig)>>
          /\ BytesLen(last.sent[1].data) = OptionDataLen
          /\ BytesLen(BaseKeyConfig) = 420

\* C12's case: a later options request, the row already saved, answered with
\* the default block.
C12_Witness ==
    /\ Processed("OptionsRequestType") /\ Completed
    /\ last.preRows = 1
    /\ BagCardinality(playerOptions) = 1
    /\ last.sent = <<SendOptions(BaseKeyConfig)>>

\* C13: a step that processes a packet of a type the dispatcher has no case
\* for sends nothing, writes exactly one log entry, which names the type,
\* returns no error, and changes no session field and no table.
C13_UnknownIgnored ==
    [][(last'.pkt.type \notin (HandledTypes \cup {"none"})) =>
          /\ last'.sent = <<>>
          /\ Len(last'.logs) = 1
          /\ last'.logs[1][2] = last'.pkt.type
          /\ ~last'.err /\ ~last'.panic
          /\ client' = client
          /\ characters' = characters
          /\ playerOptions' = playerOptions
          /\ UNCHANGED <<guildcardEntries, paramHeaderData, paramChunkData>>]_vars

\* C13's case: an unknown packet on a session with a character selected and
\* a saved options row.
C13_Witness ==
    /\ Processed("0xFF")
    /\ last.logs = <<<<"Received unknown packet", "0xFF">>>>
    /\ last.sent = <<>>
    /\ last.pre.config.CharSelected = 1
    /\ BagCardinality(playerOptions) = 1

\* C15: a character create/update packet for slot S that returns no error
\* leaves the session with CharSelected 1 and SlotNum S and has sent exactly
\* a security acknowledgment and then a character acknowledgment for slot S;
\* the security acknowledgment already carries CharSelected 1 and SlotNum S,
\* the fields having been written before it was sent.
C15_MarkThenAcknowledge ==
    (Processed("CharPreviewType") /\ Completed) =>
        LET marked == [CharSelected |-> 1, SlotNum |-> last.pkt.Slot]
        IN  /\ client[last.conn].config = marked
            /\ Types(last.sent) = <<"Security", "CharacterAck">>
            /\ last.sent[1].config = marked
            /\ last.sent[2].slot = last.pkt.Slot

\* C15's case: a create into slot 1 on a session that had slot 0 selected.
C15_Witness ==
    /\ Processed("CharPreviewType") /\ Completed
    /\ last.pre.config = [CharSelected |-> 1, SlotNum |-> 0]
    /\ last.pkt.Slot = 1
    /\ last.sent[1].config = [CharSelected |-> 1, SlotNum |-> 1]

\* C16 as stated: after a character update packet handled in the dressing
\* room (flag 0x02) for a slot that holds a character, the row of the
\* connection's account and the packet's slot carries the submitted name,
\* PropX and PropY.
C16_Original ==
    (Processed("CharPreviewType") /\ last.pre.flag = 2 /\ last.preRows = 1) =>
        \A r \in RowsOf(characters, ClientGuildcard(last.conn), last.pkt.Slot) :
            /\ r.name = last.pkt.Character.Name
            /\ r.proportion_x = last.pkt.Character.PropX
            /\ r.proportion_y = last.pkt.Character.PropY

\* C17: a Set-flag step stores the packet's byte in the session's flag,
\* sends nothing and changes no other session field; a step of any other
\* packet type leaves every session's flag as it was, a character
\* create/update included; and a character create/update step takes the
\* dressing-room branch (one UPDATE, which here fails and changes no row)
\* exactly when the flag stored before it is 0x02, the create branch (the
\* table unchanged, or the slot's rows deleted, or deleted and the new row
\* inserted) otherwise.
C17_FlagFollowsSetFlag ==
    [][LET c == last'.conn
           pkt == last'.pkt
           g == ClientGuildcard(c)
           deleted == DeleteCharacter(characters, g, pkt.Slot)
       IN  /\ pkt.type = "SetFlagType" =>
                 /\ client'[c] = [client[c] EXCEPT !.flag = pkt.Flag]
                 /\ last'.sent = <<>> /\ ~last'.err
           /\ pkt.type # "SetFlagType" =>
                 \A k \in DOMAIN client : client'[k].flag = client[k].flag
           /\ (pkt.type = "CharPreviewType" /\ client[c].flag = 2) =>
                 /\ last'.err
                 /\ characters' = characters
           /\ (pkt.type = "CharPreviewType" /\ client[c].flag # 2) =>
                 /\ characters' \in
                       {characters, deleted,
                        InsertCharacter(deleted, g, pkt.Slot, pkt.Character)}
                 /\ ~last'.err =>
                       characters' =
                           InsertCharacter(deleted, g, pkt.Slot, pkt.Character)]_vars

\* C17's case: a character update handled in the dressing room, the flag
\* still 0x02 after it, on a session on which a create had completed before.
C17_Witness ==
    /\ Processed("CharPreviewType")
    /\ last.pre.flag = 2
    /\ client[last.conn].flag = 2
    /\ last.pre.config.CharSelected = 1
    /\ last.err

\* C18 as stated: whenever a session's CharSelected is 1, the store holds a
\* character row for the account and the session's SlotNum.
C18_Original ==
    \A c \in DOMAIN client :
        client[c].config.CharSelected = 1 =>
            RowCount(characters, ClientGuildcard(c), client[c].config.SlotNum) >= 1

\* C20 as stated: a create step (flag unset) that returns an error leaves
\* the characters table as it was before the packet.
C20_Original ==
    [][(/\ last'.pkt.type = "CharPreviewType"
        /\ client[last'.conn].flag # 2
        /\ last'.err) =>
          characters' = characters]_vars

\* C14: under every interleaving of the packets and statements of several
\* connections the parameter cache keeps the content it was built with: a
\* parameter header response carries the file count and the header bytes of
\* that content, and a parameter chunk response for a cached index i carries
\* the index i and the bytes cached for i.
C14_CacheNeverWritten ==
    /\ paramHeaderData = InitParamHeader
    /\ paramChunkData = InitParamChunks
    /\ Processed("ParameterHeaderReqType") =>
          last.sent = <<SendParameterHeader(NumParamFiles, InitParamHeader)>>
    /\ ( /\ Processed("ParameterChunkReqType")
          /\ last.pkt.Flags \in DOMAIN InitParamChunks ) =>
          last.sent = <<SendParameterChunk(InitParamChunks[last.pkt.Flags],
                                           last.pkt.Flags)>>

\* C14's case: connection 2 was served chunk 1 while connection 1 was
\* between the DELETE and the INSERT of a create.
C14_Witness ==
    /\ Processed("ParameterChunkReqType")
    /\ last.conn = 2
    /\ last.pkt.Flags = 1
    /\ last.sent[1].data = InitParamChunks[1]
    /\ pending[1] # NoPending

\* C19 as stated: with the delete and insert statements of two connections'
\* creates free to interleave, every state in which no create is in progress
\* holds at most one character row per (account, slot).
C19_Original ==
    (\A c \in DOMAIN pending : pending[c] = NoPending) =>
        \A c \in DOMAIN client, slot \in Slots :
            RowCount(characters, ClientGuildcard(c), slot) <= 1

====
